---- MODULE Spec2Model ----
(***************************************************************************)
(* A model of the Intelecom SMS gateway client (smsgwclient.go): the       *)
(* request/response data model, the JSON encoding of a request with its    *)
(* omitempty rules, the decoding of a response, and SmsGatewayClient.Send  *)
(* as it runs against an HTTP transport that may fail, answer any status   *)
(* and answer any body.                                                    *)
(*                                                                         *)
(* Go values are modelled as follows.  A pointer is a sequence of length   *)
(* at most one (<<>> is nil).  An error is a string, NilError being nil.   *)
(* A JSON text is the tree of the value it denotes, tagged by its kind; a  *)
(* JSON object keeps its members in the order they were written.           *)
(***************************************************************************)
EXTENDS Integers, Sequences, FiniteSets, TLC

VARIABLES client, made, calls

vars == <<client, made, calls>>

\* Bounds of the model.
NumCalls == 2
MaxMessages == 2

Calls == 1..NumCalls

----------------------------------------------------------------------------
\* Go values

NilError == "<nil>"

IsNil(p) == Len(p) = 0
Deref(p) == p[1]
Ref(v) == <<v>>
Nil == <<>>

\* JSON values.  Every value has the same fields, the ones its kind does not
\* use being left empty: s the text of a string, n a number, b a boolean,
\* a the elements of an array, m the <<key, value>> members of an object.
JValue(t, s, n, b, a, m) == [t |-> t, s |-> s, n |-> n, b |-> b, a |-> a, m |-> m]
JStr(s) == JValue("string", s, 0, FALSE, <<>>, <<>>)
JNum(n) == JValue("number", "", n, FALSE, <<>>, <<>>)
JBool(b) == JValue("bool", "", 0, b, <<>>, <<>>)
JNull == JValue("null", "", 0, FALSE, <<>>, <<>>)
JArr(a) == JValue("array", "", 0, FALSE, a, <<>>)
JObj(m) == JValue("object", "", 0, FALSE, <<>>, m)

Keys(obj) == {obj.m[i][1] : i \in 1..Len(obj.m)}
HasKey(obj, k) == obj.t = "object" /\ k \in Keys(obj)
Get(obj, k) == obj.m[CHOOSE i \in 1..Len(obj.m) : obj.m[i][1] = k][2]

----------------------------------------------------------------------------
\* The data model (smsgwclient.go lines 19-172)

Message(recipient, content, price, clientReference, settings) ==
    [Recipient |-> recipient, Content |-> content, Price |-> price,
     ClientReference |-> clientReference, Settings |-> settings]

\* The zero value Settings{}: every field unset.
Settings ==
    [Priority |-> 0, Validity |-> 0, Differentiator |-> "", Age |-> 0,
     NewSession |-> FALSE, SessionID |-> "", InvoiceNode |-> "",
     AutoDetectEncoding |-> FALSE, SafeRemoveNonGsmCharacters |-> FALSE,
     OriginatorSettings |-> Nil, GasSettings |-> Nil, SendWindow |-> Nil,
     Parameters |-> <<>>]

OriginatorSettings(originatorType, originator) ==
    [OriginatorType |-> originatorType, Originator |-> originator]

GasSettings(serviceCode, description) ==
    [ServiceCode |-> serviceCode, Description |-> description]

\* A time.Time, kept to the year: the one part the encoder can reject.
Time(year) == [year |-> year]

SendWindow(startDate, startTime, stopDate, stopTime) ==
    [StartDate |-> startDate, StartTime |-> startTime,
     StopDate |-> stopDate, StopTime |-> stopTime]

smsGatewayRequest(serviceID, username, password, messages) ==
    [ServiceID |-> serviceID, Username |-> username, Password |-> password,
     BatchReference |-> "", Messages |-> messages]

SmsGatewayResponse(batchReference, messageStatus) ==
    [BatchReference |-> batchReference, MessageStatus |-> messageStatus]

\* The zero value MessageStatus{}.
MessageStatus ==
    [StatusCode |-> 0, StatusMessage |-> "", ClientReference |-> "",
     Recipient |-> "", MessageID |-> "", SessionID |-> "", SequenceIndex |-> 0]

\* The zero value SmsGatewayResponse{} that Send returns beside an error.
EmptyResponse == SmsGatewayResponse("", <<>>)

----------------------------------------------------------------------------
\* encoding/json as json.Marshal applies it to the request (line 198)

MinYear == 0
MaxYear == 9999

\* TimeMarshalError without the range check.
TimeMarshalErrorNever(t) == NilError

\* Time.MarshalJSON refuses a year outside [0,9999].
TimeMarshalError(t) ==
    IF t.year < MinYear \/ t.year > MaxYear
    THEN "Time.MarshalJSON: year outside of range [0,9999]"
    ELSE NilError

\* RFC 3339 text of a time.
TimeString(t) == ToString(t.year) \o "-01-01T00:00:00Z"

Member(key, val) == << <<key, val>> >>

\* OmitEmpty with the omitempty tag forgotten.
OmitEmptyIgnored(key, val, empty) == Member(key, val)

\* A field tagged `json:"key,omitempty"`: no member at all when the field
\* holds its type's empty value (0, false, "", nil pointer, empty map).
OmitEmpty(key, val, empty) == IF empty THEN <<>> ELSE Member(key, val)

MarshalTimePtr(p) == IF IsNil(p) THEN JNull ELSE JStr(TimeString(Deref(p)))

MarshalSendWindow(w) ==
    JObj(Member("startDate", JStr(TimeString(w.StartDate)))
         \o OmitEmpty("startTime", MarshalTimePtr(w.StartTime), IsNil(w.StartTime))
         \o OmitEmpty("stopDate", MarshalTimePtr(w.StopDate), IsNil(w.StopDate))
         \o OmitEmpty("stopTime", MarshalTimePtr(w.StopTime), IsNil(w.StopTime)))

MarshalOriginatorSettings(o) ==
    JObj(Member("originatorType", JStr(o.OriginatorType))
         \o Member("originator", JStr(o.Originator)))

MarshalGasSettings(g) ==
    JObj(Member("serviceCode", JStr(g.ServiceCode))
         \o OmitEmpty("description", JStr(g.Description), g.Description = ""))

\* A map[string]string, held as its key/value pairs in key order.
MarshalParameters(ps) ==
    JObj([i \in 1..Len(ps) |-> <<ps[i][1], JStr(ps[i][2])>>])

MarshalSettings(s) ==
    JObj(OmitEmpty("priority", JNum(s.Priority), s.Priority = 0)
         \o OmitEmpty("validity", JNum(s.Validity), s.Validity = 0)
         \o OmitEmpty("differentiator", JStr(s.Differentiator), s.Differentiator = "")
         \o OmitEmpty("age", JNum(s.Age), s.Age = 0)
         \o OmitEmpty("newSession", JBool(s.NewSession), ~s.NewSession)
         \o OmitEmpty("sessionId", JStr(s.SessionID), s.SessionID = "")
         \o OmitEmpty("invoiceNode", JStr(s.InvoiceNode), s.InvoiceNode = "")
         \o OmitEmpty("autoDetectEncoding", JBool(s.AutoDetectEncoding),
                      ~s.AutoDetectEncoding)
         \o OmitEmpty("safeRemoveNonGsmCharacters",
                      JBool(s.SafeRemoveNonGsmCharacters),
                      ~s.SafeRemoveNonGsmCharacters)
         \o OmitEmpty("originatorSettings",
                      IF IsNil(s.OriginatorSettings) THEN JNull
                      ELSE MarshalOriginatorSettings(Deref(s.OriginatorSettings)),
                      IsNil(s.OriginatorSettings))
         \o OmitEmpty("gasSettings",
                      IF IsNil(s.GasSettings) THEN JNull
                      ELSE MarshalGasSettings(Deref(s.GasSettings)),
                      IsNil(s.GasSettings))
         \o OmitEmpty("sendWindow",
                      IF IsNil(s.SendWindow) THEN JNull
                      ELSE MarshalSendWindow(Deref(s.SendWindow)),
                      IsNil(s.SendWindow))
         \o OmitEmpty("parameter", MarshalParameters(s.Parameters),
                      Len(s.Parameters) = 0))

MarshalMessage(m) ==
    JObj(Member("recipient", JStr(m.Recipient))
         \o Member("content", JStr(m.Content))
         \o Member("price", JNum(m.Price))
         \o OmitEmpty("clientReference", JStr(m.ClientReference),
                      m.ClientReference = "")
         \o OmitEmpty("settings",
                      IF IsNil(m.Settings) THEN JNull
                      ELSE MarshalSettings(Deref(m.Settings)),
                      IsNil(m.Settings)))

MarshalRequest(r) ==
    JObj(Member("serviceId", JNum(r.ServiceID))
         \o Member("username", JStr(r.Username))
         \o Member("password", JStr(r.Password))
         \o OmitEmpty("batchReference", JStr(r.BatchReference),
                      r.BatchReference = "")
         \o Member("message",
                   JArr([i \in 1..Len(r.Messages) |-> MarshalMessage(r.Messages[i])])))

\* The times the encoder reaches in one message, in field order.
EncodedTimes(m) ==
    IF IsNil(m.Settings) \/ IsNil(Deref(m.Settings).SendWindow) THEN <<>>
    ELSE LET w == Deref(Deref(m.Settings).SendWindow)
         IN  <<w.StartDate>> \o w.StartTime \o w.StopDate \o w.StopTime

\* The first error the encoder meets, or NilError.
MarshalError(r) ==
    LET bad == {<<i, j>> \in (1..Len(r.Messages)) \X (1..4) :
                   /\ j <= Len(EncodedTimes(r.Messages[i]))
                   /\ TimeMarshalError(EncodedTimes(r.Messages[i])[j]) # NilError}
    IN  IF bad = {} THEN NilError
        ELSE LET first == CHOOSE p \in bad :
                            \A q \in bad : p[1] < q[1] \/ (p[1] = q[1] /\ p[2] <= q[2])
             IN  "json: error calling MarshalJSON for type time.Time: "
                 \o TimeMarshalError(EncodedTimes(r.Messages[first[1]])[first[2]])

\* json.Marshal: the encoded buffer, or an error and no buffer.
Marshal(r) ==
    IF MarshalError(r) # NilError
    THEN [buf |-> Nil, err |-> MarshalError(r)]
    ELSE [buf |-> Ref(MarshalRequest(r)), err |-> NilError]

----------------------------------------------------------------------------
\* HTTP messages

\* http.Header.Add: append the value to the values held under the key.
HeaderAdd(h, key, value) ==
    [k \in DOMAIN h \cup {key} |->
        IF k = key
        THEN (IF k \in DOMAIN h THEN Append(h[k], value) ELSE <<value>>)
        ELSE h[k]]

NoHeader == [k \in {} |-> <<>>]

\* A response body as the decoder sees it: no bytes at all ("empty"), bytes
\* that do not begin a JSON value ("invalid"), or one complete JSON value
\* ("value"), which further non-JSON bytes may follow (trailing).
Body(syntax, value, trailing) ==
    [syntax |-> syntax, value |-> value, trailing |-> trailing]

Response(statusCode, body) == [StatusCode |-> statusCode, Body |-> body]

----------------------------------------------------------------------------
\* encoding/json as decoder.Decode applies it to the response (lines 211-213)

TypeError(kind, goType) ==
    "json: cannot unmarshal " \o kind \o " into Go value of type " \o goType

GoKind(goType) ==
    CASE goType = "string" -> "string"
      [] goType = "int" -> "number"
      [] goType = "[]smsgwclient.MessageStatus" -> "array"
      [] OTHER -> "object"

\* Store a JSON value into a field of a struct being filled (converted is the
\* value decoded for the field's type, with the error met inside it).  null
\* leaves the field alone; a value of the wrong kind leaves it alone too and
\* is remembered as the error unless an earlier one is.
StoreField(st, field, goType, v, converted) ==
    IF v.t = "null" THEN st
    ELSE IF v.t = GoKind(goType)
         THEN [val |-> [st.val EXCEPT ![field] = converted.val],
               err |-> IF st.err = NilError THEN converted.err ELSE st.err]
         ELSE [val |-> st.val,
               err |-> IF st.err = NilError THEN TypeError(v.t, goType) ELSE st.err]

Scalar(v) == [val |-> IF v.t = "number" THEN v.n ELSE v.s, err |-> NilError]

StatusField(key) ==
    CASE key = "statusCode" -> <<"StatusCode", "int">>
      [] key = "statusMessage" -> <<"StatusMessage", "string">>
      [] key = "clientReference" -> <<"ClientReference", "string">>
      [] key = "recipient" -> <<"Recipient", "string">>
      [] key = "messageId" -> <<"MessageID", "string">>
      [] key = "sessionId" -> <<"SessionID", "string">>
      [] key = "sequenceIndex" -> <<"SequenceIndex", "int">>
      [] OTHER -> <<>>

RECURSIVE UnmarshalStatusMembers(_, _)
UnmarshalStatusMembers(members, st) ==
    IF members = <<>> THEN st
    ELSE LET key == Head(members)[1]
             v == Head(members)[2]
             f == StatusField(key)
         IN  UnmarshalStatusMembers(Tail(members),
                 IF f = <<>> THEN st
                 ELSE StoreField(st, f[1], f[2], v,
                                 IF v.t \in {"string", "number"} THEN Scalar(v)
                                 ELSE [val |-> v, err |-> NilError]))

\* One element of messageStatus into a MessageStatus.
UnmarshalStatus(v) ==
    IF v.t = "object"
    THEN UnmarshalStatusMembers(v.m, [val |-> MessageStatus, err |-> NilError])
    ELSE IF v.t = "null" THEN [val |-> MessageStatus, err |-> NilError]
    ELSE [val |-> MessageStatus, err |-> TypeError(v.t, "smsgwclient.MessageStatus")]

\* UnmarshalStatusArray filling the slice from its far end.
UnmarshalStatusArrayReversed(v) ==
    LET ds == [i \in 1..Len(v.a) |-> UnmarshalStatus(v.a[Len(v.a) + 1 - i])]
        bad == {i \in 1..Len(ds) : ds[i].err # NilError}
    IN  [val |-> [i \in 1..Len(ds) |-> ds[i].val],
         err |-> IF bad = {} THEN NilError
                 ELSE ds[CHOOSE i \in bad : \A j \in bad : i <= j].err]

\* A JSON array into a []MessageStatus, element by element.
UnmarshalStatusArray(v) ==
    LET ds == [i \in 1..Len(v.a) |-> UnmarshalStatus(v.a[i])]
        bad == {i \in 1..Len(ds) : ds[i].err # NilError}
    IN  [val |-> [i \in 1..Len(ds) |-> ds[i].val],
         err |-> IF bad = {} THEN NilError
                 ELSE ds[CHOOSE i \in bad : \A j \in bad : i <= j].err]

RECURSIVE UnmarshalResponseMembers(_, _)
UnmarshalResponseMembers(members, st) ==
    IF members = <<>> THEN st
    ELSE LET key == Head(members)[1]
             v == Head(members)[2]
         IN  UnmarshalResponseMembers(Tail(members),
                 CASE key = "batchReference" ->
                        StoreField(st, "BatchReference", "string", v,
                                   IF v.t = "string" THEN Scalar(v)
                                   ELSE [val |-> v, err |-> NilError])
                   [] key = "messageStatus" ->
                        StoreField(st, "MessageStatus", "[]smsgwclient.MessageStatus", v,
                                   IF v.t = "array" THEN UnmarshalStatusArray(v)
                                   ELSE [val |-> v, err |-> NilError])
                   [] OTHER -> st)

\* A JSON value into a SmsGatewayResponse: what could be stored, and the
\* earliest type error.
Unmarshal(v) ==
    IF v.t = "object"
    THEN UnmarshalResponseMembers(v.m, [val |-> EmptyResponse, err |-> NilError])
    ELSE IF v.t = "null" THEN [val |-> EmptyResponse, err |-> NilError]
    ELSE [val |-> EmptyResponse, err |-> TypeError(v.t, "smsgwclient.SmsGatewayResponse")]

\* json.NewDecoder(body).Decode(&gatewayResponse): reads the first JSON value
\* of the stream and stops there; what follows that value is not read.
Decode(body) ==
    CASE body.syntax = "empty" -> [val |-> EmptyResponse, err |-> "EOF"]
      [] body.syntax = "invalid" ->
            [val |-> EmptyResponse,
             err |-> "invalid character looking for beginning of value"]
      [] OTHER -> Unmarshal(body.value)

----------------------------------------------------------------------------
\* The client (lines 12-17, 174-182)

MakeSmsGatewayClient(baseURL, serviceID, username, password) ==
    [baseURL |-> baseURL, serviceID |-> serviceID,
     username |-> username, password |-> password]

\* Base URLs a client is made with: the tests' address, and one that no
\* request can be built from (url.Parse: missing protocol scheme).
BaseURLs == {"https://www.dummy-address.com", ":bad"}

UnparsableURLs == {":bad/sendMessages"}

ServiceIDs == {0, 42}

Credentials == {<<"", "">>, <<"user", "secret">>}

Clients ==
    {MakeSmsGatewayClient(b, s, cr[1], cr[2]) :
        b \in BaseURLs, s \in ServiceIDs, cr \in Credentials}

----------------------------------------------------------------------------
\* Messages callers send

\* Message{}, as the tests send it.
DefaultMessage == Message("", "", 0, "", Nil)

\* Settings present with every field unset.
ReferenceMessage == Message("+4799999999", "This is a test", 0, "ref-1", Ref(Settings))

\* A few settings set, a send window with its start date only.
WindowMessage ==
    Message("+4741000000", "later", 100, "",
            Ref([Settings EXCEPT !.Priority = 3,
                                 !.GasSettings = Ref(GasSettings("01001", "")),
                                 !.SendWindow = Ref(SendWindow(Time(2026), Nil, Nil, Nil))]))

\* Every field set.
FullMessage ==
    Message("+4741000001", "full", 200, "ref-2",
            Ref([Priority |-> 1, Validity |-> 60, Differentiator |-> "stats",
                 Age |-> 18, NewSession |-> TRUE, SessionID |-> "s-1",
                 InvoiceNode |-> "node", AutoDetectEncoding |-> TRUE,
                 SafeRemoveNonGsmCharacters |-> TRUE,
                 OriginatorSettings |-> Ref(OriginatorSettings("ALPHANUMERIC", "Intelecom")),
                 GasSettings |-> Ref(GasSettings("01001", "ringtone")),
                 SendWindow |-> Ref(SendWindow(Time(2026), Ref(Time(0)),
                                               Ref(Time(9999)), Ref(Time(2027)))),
                 Parameters |-> << <<"dcs", "F5">> >>]))

\* Send windows whose dates the encoder refuses.
LateMessage ==
    Message("+4741000002", "late", 0, "",
            Ref([Settings EXCEPT !.SendWindow = Ref(SendWindow(Time(10000), Nil, Nil, Nil))]))

EarlyStopMessage ==
    Message("+4741000003", "early", 0, "ref-3",
            Ref([Settings EXCEPT
                   !.SendWindow = Ref(SendWindow(Time(2026), Nil, Nil, Ref(Time(-1))))]))

Messages ==
    {DefaultMessage, ReferenceMessage, WindowMessage, FullMessage,
     LateMessage, EarlyStopMessage}

MessageLists == UNION {[1..n -> Messages] : n \in 0..MaxMessages}

----------------------------------------------------------------------------
\* The gateway and the transport, as httpClient.Do shows them to Send

\* The body of the tests' 200 responder.
OkBody ==
    Body("value",
         JObj(<< <<"batchReference", JStr("123abc")>>,
                 <<"messageStatus", JArr(<<>>)>> >>),
         FALSE)

\* The gateway's answer to a request: one status entry per message, in the
\* order of the request, the client reference echoed when one was given.
EchoBody(buf) ==
    LET ms == Get(buf, "message").a
    IN  Body("value",
             JObj(<< <<"batchReference", JStr("batch-1")>>,
                     <<"messageStatus",
                       JArr([i \in 1..Len(ms) |->
                              JObj(<< <<"statusCode", JNum(1)>>,
                                      <<"statusMessage", JStr("Message enqueued")>> >>
                                   \o (IF HasKey(ms[i], "clientReference")
                                       THEN Member("clientReference",
                                                   Get(ms[i], "clientReference"))
                                       ELSE <<>>)
                                   \o << <<"recipient", Get(ms[i], "recipient")>>,
                                         <<"messageId", JStr("id")>>,
                                         <<"sequenceIndex", JNum(i)>> >>)])>> >>),
             FALSE)

\* Two entries whose sequence indexes run backwards, and an unknown member.
ShuffledBody ==
    Body("value",
         JObj(<< <<"messageStatus",
                   JArr(<< JObj(<< <<"sequenceIndex", JNum(2)>>,
                                   <<"clientReference", JStr("b")>> >>),
                           JObj(<< <<"sequenceIndex", JNum(1)>>,
                                   <<"clientReference", JStr("a")>>,
                                   <<"sessionId", JNull>> >>) >>)>>,
                 <<"batchReference", JStr("shuffled")>>,
                 <<"extra", JBool(TRUE)>> >>),
         FALSE)

EmptyBody == Body("empty", JNull, FALSE)

\* Bytes that are no JSON, such as an HTML error page.
InvalidBody == Body("invalid", JNull, FALSE)

\* The tests' body with further bytes after the closing brace.
TrailingBody == [OkBody EXCEPT !.trailing = TRUE]

\* Valid JSON of the wrong shape.
NumberReferenceBody ==
    Body("value",
         JObj(<< <<"batchReference", JNum(123)>>,
                 <<"messageStatus", JArr(<< JObj(<< <<"sequenceIndex", JNum(1)>> >>) >>)>> >>),
         FALSE)

ArrayBody == Body("value", JArr(<<>>), FALSE)

TextStatusBody ==
    Body("value",
         JObj(<< <<"batchReference", JStr("456def")>>,
                 <<"messageStatus", JArr(<< JObj(<< <<"statusCode", JStr("1")>> >>) >>)>> >>),
         FALSE)

NullBody == Body("value", JNull, FALSE)

Bodies(request) ==
    {OkBody, EchoBody(request.Body), ShuffledBody, EmptyBody, InvalidBody,
     TrailingBody, NumberReferenceBody, ArrayBody, TextStatusBody, NullBody}

StatusCodes == {200, 204, 500}

\* What httpClient.Do can return for a request: no response and an error
\* (DNS, connection refused, timeout, TLS), a response and an error (the
\* redirect policy gave up), or a response and no error.
Transport(request) ==
    {[response |-> Nil, err |-> "Post: dial tcp: connection refused"]}
    \cup {[response |-> Ref(Response(302, EmptyBody)),
           err |-> "Post: stopped after 10 redirects"]}
    \cup {[response |-> Ref(Response(s, b)), err |-> NilError] :
             s \in StatusCodes, b \in Bodies(request)}

----------------------------------------------------------------------------
\* SmsGatewayClient.Send (lines 184-218)

StatusOK == 200

\* http.NewRequest: a request, or nil and an error when the URL does not parse.
NewRequest(method, url, buf) ==
    IF url \in UnparsableURLs
    THEN [request |-> Nil, err |-> "parse " \o url \o ": missing protocol scheme"]
    ELSE [request |-> Ref([Method |-> method, URL |-> url,
                           Header |-> NoHeader, Body |-> buf]),
          err |-> NilError]

\* createRequest without the Accept header.
createRequestNoAccept(url, buf) ==
    LET request == NewRequest("POST", url, buf).request
    IN  IF IsNil(request)
        THEN [request |-> Nil,
              panic |-> "invalid memory address or nil pointer dereference"]
        ELSE [request |->
                Ref([Deref(request) EXCEPT
                       !.Header = HeaderAdd(@, "Content-Type", "application/json")]),
              panic |-> ""]

\* createRequest drops NewRequest's error and sets the headers on what it
\* got: on a nil request that is a nil pointer dereference.
createRequest(url, buf) ==
    LET request == NewRequest("POST", url, buf).request
    IN  IF IsNil(request)
        THEN [request |-> Nil,
              panic |-> "invalid memory address or nil pointer dereference"]
        ELSE [request |->
                Ref([Deref(request) EXCEPT
                       !.Header = HeaderAdd(HeaderAdd(@, "Content-Type", "application/json"),
                                            "Accept", "application/json")]),
              panic |-> ""]

\* GatewayRequest with the envelope kept in one place shared by all calls:
\* a call that starts while another is in flight sends the other's messages.
GatewayRequestShared(cl, messages) ==
    LET inflight == {c \in Calls : calls[c].pc = "inflight"}
    IN  smsGatewayRequest(cl.serviceID, cl.username, cl.password,
                          IF inflight = {} THEN messages
                          ELSE calls[CHOOSE c \in inflight : TRUE].messages)

\* The envelope Send builds from the client and the caller's messages.
GatewayRequest(cl, messages) ==
    smsGatewayRequest(cl.serviceID, cl.username, cl.password, messages)

\* Dispatch with one retry.
DispatchTwice(outbound, request) == Append(Append(outbound, request), request)

\* client.httpClient.Do(request) puts the request on the wire.
Dispatch(outbound, request) == Append(outbound, request)

\* IsErrorStatus taking only the 4xx and 5xx codes for failures.
IsErrorStatusFrom400(statusCode) == statusCode >= 400

IsErrorStatus(statusCode) == statusCode # StatusOK

\* Lines 205-217, once Do has returned a response: the result of Send.
Complete(do) ==
    LET response == Deref(do.response)
        decoded == Decode(response.Body)
    IN  IF do.err # NilError
        THEN [response |-> EmptyResponse, err |-> do.err]
        ELSE IF IsErrorStatus(response.StatusCode)
        THEN [response |-> EmptyResponse,
              err |-> "Status code: " \o ToString(response.StatusCode)]
        ELSE IF decoded.err # NilError
        THEN [response |-> EmptyResponse, err |-> decoded.err]
        ELSE [response |-> decoded.val, err |-> NilError]

IdleCall ==
    [pc |-> "idle", messages |-> <<>>, request |-> Nil, do |-> Nil,
     result |-> Nil, panic |-> "", outbound |-> <<>>]

\* Lines 192-203: Send up to the moment the request is on the wire.
SendRequest(c, messages) ==
    /\ calls[c].pc = "idle"
    /\ LET marshalled == Marshal(GatewayRequest(client, messages))
           created == createRequest(client.baseURL \o "/sendMessages",
                                    Deref(marshalled.buf))
       IN  calls' = [calls EXCEPT ![c] =
              IF marshalled.err # NilError
              THEN [@ EXCEPT !.pc = "returned", !.messages = messages,
                             !.result = Ref([response |-> EmptyResponse,
                                             err |-> marshalled.err])]
              ELSE IF created.panic # ""
              THEN [@ EXCEPT !.pc = "panicked", !.messages = messages,
                             !.panic = created.panic]
              ELSE [@ EXCEPT !.pc = "inflight", !.messages = messages,
                             !.request = created.request,
                             !.outbound = Dispatch(@, Deref(created.request))]]
    /\ UNCHANGED <<client, made>>

\* Lines 203-217: Do returns and Send runs to its end.  The deferred
\* response.Body.Close() reads response.Body before err is looked at: with
\* no response that is a nil pointer dereference.
SendResponse(c, do) ==
    /\ calls[c].pc = "inflight"
    /\ calls' = [calls EXCEPT ![c] =
          IF IsNil(do.response)
          THEN [@ EXCEPT !.pc = "panicked", !.do = Ref(do),
                         !.panic = "invalid memory address or nil pointer dereference"]
          ELSE [@ EXCEPT !.pc = "returned", !.do = Ref(do),
                         !.result = Ref(Complete(do))]]
    /\ UNCHANGED <<client, made>>

\* What the transport may answer to the call, once its request is out.
Outcomes(c) ==
    IF calls[c].pc = "inflight" THEN Transport(Deref(calls[c].request)) ELSE {}

Init ==
    /\ client \in Clients
    /\ made = client
    /\ calls = [c \in Calls |-> IdleCall]

\* One caller, any messages, any answer.
Next ==
    \E c \in {d \in Calls : d = 1} :
        \/ \E messages \in MessageLists : SendRequest(c, messages)
        \/ \E do \in Outcomes(c) : SendResponse(c, do)

Spec == Init /\ [][Next]_vars

----------------------------------------------------------------------------
\* Concurrent callers of one client

Batch == <<ReferenceMessage, DefaultMessage, WindowMessage, FullMessage>>

Reverse(s) == [i \in 1..Len(s) |-> s[Len(s) + 1 - i]]

\* What concurrent callers send: the leading messages of Batch, or the same
\* in reverse order.
ConcurrentLists ==
    {SubSeq(Batch, 1, n) : n \in 0..MaxMessages}
    \cup {Reverse(SubSeq(Batch, 1, n)) : n \in 0..MaxMessages}

ConcurrentOutcomes(c) ==
    IF calls[c].pc # "inflight" THEN {}
    ELSE {do \in Transport(Deref(calls[c].request)) :
            \/ IsNil(do.response)
            \/ /\ do.err = NilError
               /\ <<Deref(do.response).StatusCode, Deref(do.response).Body>> \in
                     {<<200, EchoBody(Deref(calls[c].request).Body)>>,
                      <<500, EmptyBody>>}}

InitConcurrent ==
    /\ client \in {cl \in Clients : cl.serviceID = 42}
    /\ made = client
    /\ calls = [c \in Calls |-> IdleCall]

NextConcurrent ==
    \E c \in Calls :
        \/ \E messages \in ConcurrentLists : SendRequest(c, messages)
        \/ \E do \in ConcurrentOutcomes(c) : SendResponse(c, do)

SpecConcurrent == InitConcurrent /\ [][NextConcurrent]_vars

----------------------------------------------------------------------------
\* Vocabulary of the properties

Started(c) == calls[c].pc # "idle"
Returned(c) == calls[c].pc = "returned"
Result(c) == Deref(calls[c].result)

\* Do has returned to call c.
Exchanged(c) == ~IsNil(calls[c].do)
Exchange(c) == Deref(calls[c].do)

\* The HTTP exchange of call c completed: a response and no error.
Answered(c) == Exchanged(c) /\ ~IsNil(Exchange(c).response) /\ Exchange(c).err = NilError
Answer(c) == Deref(Exchange(c).response)

\* Send returned an error and the empty response.
Failed(c) ==
    /\ Returned(c)
    /\ Result(c).err # NilError
    /\ Result(c).response = [BatchReference |-> "", MessageStatus |-> <<>>]

YearEncodable(t) == t.year \in 0..9999

\* Some message carries a send-window date the encoder cannot write.
Unencodable(messages) ==
    \E i \in 1..Len(messages) :
        /\ ~IsNil(messages[i].Settings)
        /\ ~IsNil(messages[i].Settings[1].SendWindow)
        /\ LET w == messages[i].Settings[1].SendWindow[1]
           IN  \/ ~YearEncodable(w.StartDate)
               \/ \E p \in {w.StartTime, w.StopDate, w.StopTime} :
                     ~IsNil(p) /\ ~YearEncodable(p[1])

----------------------------------------------------------------------------
\* C1: whenever the HTTP exchange of a Send completes with a status code
\* other than 200, Send returns the empty response and a non-nil error that
\* carries the status code, whatever the body holds.
C1_StatusErrorReturned ==
    \A c \in Calls :
        (Answered(c) /\ Answer(c).StatusCode # 200) =>
            /\ Failed(c)
            /\ Result(c).err = "Status code: " \o ToString(Answer(c).StatusCode)

\* A 500 whose body is the very payload that would be a success under 200.
C1_Witness ==
    \E c \in Calls :
        /\ Answered(c)
        /\ Answer(c).StatusCode = 500
        /\ Answer(c).Body = OkBody
        /\ Returned(c)
        /\ Result(c).err = "Status code: 500"

----------------------------------------------------------------------------
\* C3: when the transport fails and no response is obtained, Send returns
\* that failure as a non-nil error with the empty response; it does not panic.
C3_TransportFailureReturned ==
    \A c \in Calls :
        (Exchanged(c) /\ IsNil(Exchange(c).response)) =>
            /\ Failed(c)
            /\ Result(c).err = Exchange(c).err

----------------------------------------------------------------------------
\* C4: when the gateway answers 200 with a body that is not valid JSON (no
\* bytes, bytes that are no JSON, or a JSON value followed by non-JSON
\* bytes), Send returns a non-nil error and the empty response.
C4_MalformedBodyRejected ==
    \A c \in Calls :
        (/\ Answered(c)
         /\ Answer(c).StatusCode = 200
         /\ (Answer(c).Body.syntax # "value" \/ Answer(c).Body.trailing)) =>
            Failed(c)

----------------------------------------------------------------------------
\* C9: when the messages cannot be encoded to JSON, Send returns a non-nil
\* error and the empty response, and the call has issued no HTTP request.
C9_SerializationFailureBeforeNetwork ==
    \A c \in Calls :
        (Started(c) /\ Unencodable(calls[c].messages)) =>
            /\ Failed(c)
            /\ calls[c].outbound = <<>>
            /\ IsNil(calls[c].request)
            /\ ~Exchanged(c)

\* A batch whose first message encodes and whose second does not.
C9_Witness ==
    \E c \in Calls :
        /\ Returned(c)
        /\ Len(calls[c].messages) = 2
        /\ ~Unencodable(<<calls[c].messages[1]>>)
        /\ Unencodable(<<calls[c].messages[2]>>)
        /\ Result(c).err # NilError
        /\ calls[c].outbound = <<>>

----------------------------------------------------------------------------
\* C10: whatever the client's configuration, a started Send ends by
\* returning: a request that cannot be built does not crash the call.
C10_UnbuildableRequestReturns ==
    \A c \in Calls :
        (Started(c) /\ (made.baseURL \o "/sendMessages") \in UnparsableURLs) =>
            Returned(c)

----------------------------------------------------------------------------
\* What a response body says, read member by member

Member1(obj, k) == obj.m[CHOOSE i \in 1..Len(obj.m) : obj.m[i][1] = k][2]
Present(obj, k) ==
    /\ \E i \in 1..Len(obj.m) : obj.m[i][1] = k
    /\ Member1(obj, k).t # "null"

StringMembers ==
    {<<"statusMessage", "StatusMessage">>, <<"clientReference", "ClientReference">>,
     <<"recipient", "Recipient">>, <<"messageId", "MessageID">>,
     <<"sessionId", "SessionID">>}

NumberMembers == {<<"statusCode", "StatusCode">>, <<"sequenceIndex", "SequenceIndex">>}

\* The JSON value has the shape of a response: null, or an object whose
\* batchReference, when there, is a string, whose messageStatus, when there,
\* is an array of objects, each member of which has its field's type (null
\* standing anywhere for "not there").
EntryFits(e) ==
    \/ e.t = "null"
    \/ /\ e.t = "object"
       /\ \A k \in StringMembers : Present(e, k[1]) => Member1(e, k[1]).t = "string"
       /\ \A k \in NumberMembers : Present(e, k[1]) => Member1(e, k[1]).t = "number"

FitsResponse(v) ==
    \/ v.t = "null"
    \/ /\ v.t = "object"
       /\ Present(v, "batchReference") => Member1(v, "batchReference").t = "string"
       /\ Present(v, "messageStatus") =>
             /\ Member1(v, "messageStatus").t = "array"
             /\ \A i \in 1..Len(Member1(v, "messageStatus").a) :
                   EntryFits(Member1(v, "messageStatus").a[i])

BodyReference(v) ==
    IF v.t = "object" /\ Present(v, "batchReference")
    THEN Member1(v, "batchReference").s ELSE ""

BodyEntries(v) ==
    IF v.t = "object" /\ Present(v, "messageStatus")
    THEN Member1(v, "messageStatus").a ELSE <<>>

\* The status entry st says what the element e of the body says.
SameEntry(st, e) ==
    /\ \A k \in StringMembers :
          st[k[2]] = IF e.t = "object" /\ Present(e, k[1]) THEN Member1(e, k[1]).s ELSE ""
    /\ \A k \in NumberMembers :
          st[k[2]] = IF e.t = "object" /\ Present(e, k[1]) THEN Member1(e, k[1]).n ELSE 0

\* The exchange of call c completed with status 200 and a body that is
\* exactly one JSON value.
ValidJSON200(c) ==
    /\ Answered(c)
    /\ Answer(c).StatusCode = 200
    /\ Answer(c).Body.syntax = "value"
    /\ ~Answer(c).Body.trailing

----------------------------------------------------------------------------
\* C2, as stated: whenever the gateway answers 200 with a body that is valid
\* JSON, Send returns a nil error.
C2_ValidJSONAccepted ==
    \A c \in Calls : ValidJSON200(c) => (Returned(c) /\ Result(c).err = NilError)

\* C2, amended: whenever the gateway answers 200 with a body that is valid
\* JSON of the shape of a response, Send returns a nil error and a response
\* whose batch reference and status entries are those of the body, entry by
\* entry in the body's order; the echo of a request yields as many entries
\* as messages were sent.
C2_ResponsePassedThrough ==
    \A c \in Calls :
        (ValidJSON200(c) /\ FitsResponse(Answer(c).Body.value)) =>
            /\ Returned(c)
            /\ Result(c).err = NilError
            /\ Result(c).response.BatchReference = BodyReference(Answer(c).Body.value)
            /\ Len(Result(c).response.MessageStatus) = Len(BodyEntries(Answer(c).Body.value))
            /\ \A i \in 1..Len(BodyEntries(Answer(c).Body.value)) :
                  SameEntry(Result(c).response.MessageStatus[i],
                            BodyEntries(Answer(c).Body.value)[i])
            /\ Answer(c).Body = EchoBody(calls[c].request[1].Body) =>
                  Len(Result(c).response.MessageStatus) = Len(calls[c].messages)

\* The echo of two messages, the second of which carries a client reference.
C2_Witness ==
    \E c \in Calls :
        /\ ValidJSON200(c)
        /\ Len(calls[c].messages) = 2
        /\ calls[c].messages[2].ClientReference = "ref-1"
        /\ Answer(c).Body = EchoBody(calls[c].request[1].Body)
        /\ Returned(c)
        /\ Result(c).err = NilError
        /\ Len(Result(c).response.MessageStatus) = 2
        /\ Result(c).response.MessageStatus[2].ClientReference = "ref-1"
        /\ Result(c).response.MessageStatus[1].SequenceIndex = 1

----------------------------------------------------------------------------
\* C5, as stated (for the calls that return): a Send that has returned has
\* issued exactly one HTTP request.
C5_ExactlyOneRequest ==
    \A c \in Calls : Returned(c) => Len(calls[c].outbound) = 1

\* C5, amended: no Send issues more than one HTTP request; a Send whose
\* request had an outcome (success, transport failure, non-200 status,
\* malformed body) has issued exactly one, the request it built; a Send that
\* returned without an outcome of a request has issued none and failed.
C5_AtMostOneRequest ==
    \A c \in Calls :
        /\ Len(calls[c].outbound) <= 1
        /\ (Exchanged(c) \/ calls[c].pc = "inflight") =>
              calls[c].outbound = <<calls[c].request[1]>>
        /\ (Returned(c) /\ ~Exchanged(c)) => (calls[c].outbound = <<>> /\ Failed(c))

\* A call whose one request was answered 200 with a malformed body.
C5_Witness ==
    \E c \in Calls :
        /\ Len(calls[c].outbound) = 1
        /\ Returned(c)
        /\ Answered(c)
        /\ Answer(c).StatusCode = 200
        /\ Answer(c).Body.syntax = "invalid"
        /\ Result(c).err # NilError

----------------------------------------------------------------------------
\* C6: every request Send issues is a POST to the base URL followed by
\* "/sendMessages", with Content-Type and Accept application/json, whose body
\* carries the client's serviceId, username and password and, under
\* "message", the caller's messages in the order and number given.
C6_RequestAsConfigured ==
    \A c \in Calls : \A k \in 1..Len(calls[c].outbound) :
        LET r == calls[c].outbound[k]
            given == calls[c].messages
        IN  /\ r.Method = "POST"
            /\ r.URL = made.baseURL \o "/sendMessages"
            /\ DOMAIN r.Header = {"Content-Type", "Accept"}
            /\ r.Header["Content-Type"] = <<"application/json">>
            /\ r.Header["Accept"] = <<"application/json">>
            /\ r.Body.t = "object"
            /\ Member1(r.Body, "serviceId") = JNum(made.serviceID)
            /\ Member1(r.Body, "username") = JStr(made.username)
            /\ Member1(r.Body, "password") = JStr(made.password)
            /\ Member1(r.Body, "message").t = "array"
            /\ Len(Member1(r.Body, "message").a) = Len(given)
            /\ \A i \in 1..Len(given) :
                  LET m == Member1(r.Body, "message").a[i]
                  IN  /\ Member1(m, "recipient") = JStr(given[i].Recipient)
                      /\ Member1(m, "content") = JStr(given[i].Content)
                      /\ Member1(m, "price") = JNum(given[i].Price)
                      /\ given[i].ClientReference # "" =>
                            Member1(m, "clientReference") = JStr(given[i].ClientReference)

\* Two different messages sent by a client with credentials.
C6_Witness ==
    \E c \in Calls :
        /\ Len(calls[c].outbound) = 1
        /\ made.username = "user"
        /\ made.serviceID = 42
        /\ Len(calls[c].messages) = 2
        /\ calls[c].messages[1].Recipient # calls[c].messages[2].Recipient
        /\ calls[c].outbound[1].Method = "POST"

----------------------------------------------------------------------------
\* C7: in every request issued, a field left unset is no key at all: no
\* "settings" for a message without Settings, no key for any unset field of
\* Settings, no startTime/stopDate/stopTime for a send window that lacks
\* them, no clientReference or description when empty, and no
\* batchReference in the envelope.
Absent(obj, k) == \A i \in 1..Len(obj.m) : obj.m[i][1] # k

SettingsOmitted(s, j) ==
    /\ s.Priority = 0 => Absent(j, "priority")
    /\ s.Validity = 0 => Absent(j, "validity")
    /\ s.Differentiator = "" => Absent(j, "differentiator")
    /\ s.Age = 0 => Absent(j, "age")
    /\ ~s.NewSession => Absent(j, "newSession")
    /\ s.SessionID = "" => Absent(j, "sessionId")
    /\ s.InvoiceNode = "" => Absent(j, "invoiceNode")
    /\ ~s.AutoDetectEncoding => Absent(j, "autoDetectEncoding")
    /\ ~s.SafeRemoveNonGsmCharacters => Absent(j, "safeRemoveNonGsmCharacters")
    /\ IsNil(s.OriginatorSettings) => Absent(j, "originatorSettings")
    /\ IsNil(s.GasSettings) => Absent(j, "gasSettings")
    /\ (~IsNil(s.GasSettings) /\ s.GasSettings[1].Description = "") =>
          Absent(Member1(j, "gasSettings"), "description")
    /\ IsNil(s.SendWindow) => Absent(j, "sendWindow")
    /\ ~IsNil(s.SendWindow) =>
          /\ IsNil(s.SendWindow[1].StartTime) => Absent(Member1(j, "sendWindow"), "startTime")
          /\ IsNil(s.SendWindow[1].StopDate) => Absent(Member1(j, "sendWindow"), "stopDate")
          /\ IsNil(s.SendWindow[1].StopTime) => Absent(Member1(j, "sendWindow"), "stopTime")
    /\ Len(s.Parameters) = 0 => Absent(j, "parameter")

NoNull(j) == \A i \in 1..Len(j.m) : j.m[i][2].t # "null"

C7_UnsetFieldsOmitted ==
    \A c \in Calls : \A k \in 1..Len(calls[c].outbound) :
        LET body == calls[c].outbound[k].Body
            given == calls[c].messages
        IN  /\ Absent(body, "batchReference")
            /\ NoNull(body)
            /\ \A i \in 1..Len(given) :
                  LET j == Member1(body, "message").a[i]
                  IN  /\ NoNull(j)
                      /\ given[i].ClientReference = "" => Absent(j, "clientReference")
                      /\ IsNil(given[i].Settings) => Absent(j, "settings")
                      /\ ~IsNil(given[i].Settings) =>
                            /\ NoNull(Member1(j, "settings"))
                            /\ SettingsOmitted(given[i].Settings[1], Member1(j, "settings"))

\* A request carrying a message without Settings and a message whose send
\* window has a start date only, the start date being sent.
C7_Witness ==
    \E c \in Calls :
        /\ Len(calls[c].outbound) = 1
        /\ Len(calls[c].messages) = 2
        /\ IsNil(calls[c].messages[1].Settings)
        /\ ~IsNil(calls[c].messages[2].Settings)
        /\ ~IsNil(calls[c].messages[2].Settings[1].SendWindow)
        /\ IsNil(calls[c].messages[2].Settings[1].SendWindow[1].StopDate)
        /\ calls[c].messages[2].Settings[1].Validity = 0
        /\ LET j == Member1(calls[c].outbound[1].Body, "message").a[2]
           IN  Keys(Member1(Member1(j, "settings"), "sendWindow")) = {"startDate"}

----------------------------------------------------------------------------
\* C8: however Send calls on one client interleave and end, the client's
\* configuration stays what it was made with, and the request of each call
\* is built from that configuration and the call's own messages.
C8_ConfigurationUntouched ==
    /\ client = made
    /\ \A c \in Calls :
          ~IsNil(calls[c].request) =>
              LET r == calls[c].request[1]
                  given == calls[c].messages
              IN  /\ r.URL = made.baseURL \o "/sendMessages"
                  /\ Member1(r.Body, "serviceId").n = made.serviceID
                  /\ Member1(r.Body, "username").s = made.username
                  /\ Member1(r.Body, "password").s = made.password
                  /\ Len(Member1(r.Body, "message").a) = Len(given)
                  /\ \A i \in 1..Len(given) :
                        Member1(Member1(r.Body, "message").a[i], "recipient").s
                            = given[i].Recipient

\* Two calls overlapping: one has ended in an error while the other, sent
\* with other messages before the first ended, is still in flight.
C8_Witness ==
    \E c, d \in Calls :
        /\ c # d
        /\ Returned(c)
        /\ Exchanged(c)
        /\ Result(c).err # NilError
        /\ calls[d].pc = "inflight"
        /\ calls[c].messages # calls[d].messages
        /\ Len(calls[c].messages) = 2

====
